---- MODULE Spec2Model ----
(***************************************************************************)
(* A model of the time drivers of the tween crate (src/src/tweener.rs):    *)
(* Tweener (variable delta), FixedTweener (fixed delta, an Iterator), and  *)
(* the looping wrappers built on them.                                     *)
(*                                                                         *)
(* Time and Value are instantiated with integers, as in the crate's own    *)
(* tests and doc tests (Linear::new(0, 10, 10), FixedTweener::new(.., 1)); *)
(* Value is the 16-bit integer i16, the arithmetic of TLC being 32-bit.    *)
(* Deltas are non-negative, which is the documented precondition.          *)
(***************************************************************************)
EXTENDS Integers, Sequences, FiniteSets, TLC

\* Bounds of the model.
MaxDuration == 4
MaxDelta == 6
MaxValue == 3
MaxSteps == 9
MaxMembers == 2     \* most tweens in a Chain
PercentBits == 3    \* a percent is a multiple of 1 / 2^PercentBits
WideMax == 22       \* largest end value and duration of the long tweens

Durations == 0..MaxDuration
Deltas == 0..MaxDelta
Values == 0..MaxValue

\* The sum of the deltas handed to a driver is followed exactly up to this
\* cap, which no sum reaches before the tween has completed.
ElapsedCap == MaxDuration + MaxDelta

Min(a, b) == IF a <= b THEN a ELSE b

(***************************************************************************)
(* Option<T>.                                                              *)
(***************************************************************************)
None == [some |-> FALSE]
Some(v) == [some |-> TRUE, value |-> v]

\* An object the program has not constructed.
Nil == [absent |-> TRUE]

(***************************************************************************)
(* TweenTime for Time = i32: ZERO, add, is_complete.  add is the addition  *)
(* of the type, which wraps around when the sum is out of range (or        *)
(* panics, in a build that checks overflow: see UpdateNarrow).  The sum is *)
(* computed without leaving the range of the type.                         *)
(***************************************************************************)
ZERO == 0

\* i32::MAX
TimeMax == 2147483647

\* i32::MIN
TimeMin == -TimeMax - 1

TimeAdd(a, b) ==
    IF b > 0 /\ a > TimeMax - b
    THEN TimeMin + (a - (TimeMax - b) - 1)
    ELSE IF b < 0 /\ a < TimeMin - b
         THEN TimeMax - ((TimeMin - b) - a - 1)
         ELSE a + b

IsComplete(time, duration) == time >= duration

(***************************************************************************)
(* TweenValue for an i16 Value.  scale(value, percent) is the product with *)
(* the fraction percent = num/den (den not negative), both computed in f64 *)
(* and the product converted back by truncation toward zero:               *)
(*     (value as f64 * (num as f64 / den as f64)) as i16.                  *)
(* With den = 0 the fraction is not a number (0/0) or infinite with the    *)
(* sign of num, and the conversion saturates: not a number to 0, a product *)
(* out of range to the end of the type on the side of its sign.            *)
(*                                                                         *)
(* The f64 result is worked out on integers.  The quotient num/den is      *)
(* rounded to the nearest number of 53 significant bits, and so is the     *)
(* product.  Where the exact product is not an integer, it is further from *)
(* the integers than the two roundings can move it, and the truncation is  *)
(* that of the exact product.  Where the exact product is an integer m,    *)
(* the f64 product is m unless the quotient was rounded down by so much    *)
(* that the product rounds to the f64 below m, and then the truncation is  *)
(* one nearer to zero: 100 * (29/100) is 28, 49 * (1/49) is 0.             *)
(* add wraps at the width of the type.                                     *)
(***************************************************************************)
I16Max == 32767

\* The bits of an f64 after the leading one.
MantissaBits == 52

\* The conversion of a product back to the type: out of range, the nearest
\* end of the type.
Saturated(x) ==
    IF x > I16Max THEN I16Max
    ELSE IF x < -I16Max - 1 THEN -I16Max - 1
    ELSE x

\* The fraction num/den alone is at or past an end of the type, so that
\* the product with any value but 0 is out of range.
PastEnds(num, den) ==
    IF num >= 0
    THEN num \div den > I16Max
    ELSE \/ num \div den < -I16Max - 1
         \/ (num \div den = -I16Max - 1 /\ num % den = 0)

\* |num| div den and |num| mod den, with no step out of the range of i32.
AbsDiv(num, den) ==
    IF num >= 0 THEN num \div den
    ELSE IF num % den = 0 THEN -(num \div den)
    ELSE -(num \div den) - 1

AbsMod(num, den) ==
    IF num >= 0 \/ num % den = 0 THEN num % den ELSE den - (num % den)

\* 2 * r mod den, for 0 <= r < den.
DoubleMod(r, den) == IF r >= den - r THEN r - (den - r) ELSE 2 * r

\* The q and r with v * a = q * den + r and 0 <= r < den, for 0 <= a < den.
RECURSIVE MulDiv(_, _, _)
MulDiv(v, a, den) ==
    IF v = 0 THEN [q |-> 0, r |-> 0]
    ELSE LET half == MulDiv(v \div 2, a, den)
             carry == half.r >= den - half.r
             q2 == 2 * half.q + (IF carry THEN 1 ELSE 0)
             r2 == DoubleMod(half.r, den)
         IN  IF v % 2 = 0 THEN [q |-> q2, r |-> r2]
             ELSE IF r2 >= den - a
                  THEN [q |-> q2 + 1, r |-> r2 - (den - a)]
                  ELSE [q |-> q2, r |-> r2 + a]

\* The exponent of x >= 1: the e with 2^e <= x < 2^(e + 1).
Exponent(x) == CHOOSE e \in 0..30 : x \div 2 ^ e = 1

\* 2^k mod v, for v of at most 16 bits.
RECURSIVE PowerMod(_, _)
PowerMod(k, v) ==
    IF k < 15 THEN (2 ^ k) % v
    ELSE ((2 ^ 15 % v) * PowerMod(k - 15, v)) % v

\* The f64 product v * (num/den) is below the integer m > 0 it equals in
\* exact arithmetic.  The fraction is then m/v.  Its 53 bits end at 2^-k,
\* k = MantissaBits less the exponent of m/v, and leave the remainder left
\* of m * 2^k / v; the fraction is rounded down when twice that remainder
\* is below v, and the product then rounds to below m when the shortfall,
\* left / 2^k, is more than half the gap between m and the f64 below it.
FallsShort(v, m) ==
    LET quot == m \div v
        rem == m % v
        ep == IF quot >= 1
              THEN Exponent(quot)
              ELSE -(Exponent((v - 1) \div rem) + 1)
        left == (rem * PowerMod(MantissaBits - ep, v)) % v
        em == Exponent(m)
        gap == em - ep - 1 - (IF m = 2 ^ em THEN 1 ELSE 0)
    IN  /\ left > 0
        /\ 2 * left < v
        /\ IF gap < 0 THEN left * 2 ^ (-gap) > 1 ELSE left > 2 ^ gap

Scale(value, num, den) ==
    IF den = 0
    THEN IF num = 0 \/ value = 0 THEN 0
         ELSE IF (value > 0) = (num > 0) THEN I16Max ELSE -I16Max - 1
    ELSE IF value = 0 \/ num = 0 THEN 0
    ELSE IF PastEnds(num, den)
         THEN IF (value > 0) = (num > 0) THEN I16Max ELSE -I16Max - 1
    ELSE LET v == IF value > 0 THEN value ELSE -value
             quot == AbsDiv(num, den)
             rem == AbsMod(num, den)
             part == MulDiv(v, rem, den)
             m == v * quot + part.q
             size == IF part.r = 0 /\ FallsShort(v, m)
                     THEN m - 1
                     ELSE m
         IN  Saturated(IF (value > 0) = (num > 0) THEN size ELSE -size)

ValueAdd(a, b) == ((a + b + I16Max + 1) % (2 * (I16Max + 1))) - I16Max - 1

(***************************************************************************)
(* The Linear tween: Linear::new(initial, final, duration).                *)
(***************************************************************************)
Linear(initial, final, duration) ==
    [initial_value |-> initial,
     value_delta |-> final - initial,
     duration |-> duration]

Duration(tween) == tween.duration

FinalValue(tween) == ValueAdd(tween.value_delta, tween.initial_value)

\* Tween::run(new_time): tween(value_delta, percent) = value_delta * percent
\* with percent = new_time / duration, added to the initial value.
Run(tween, new_time) ==
    ValueAdd(Scale(tween.value_delta, new_time, tween.duration),
             tween.initial_value)

\* Which method of the tween a step has called, and with which time.
CalledRun(time) == [method |-> "run", time |-> time]
CalledFinal == [method |-> "final_value"]
CalledNothing == [method |-> "nothing"]

(***************************************************************************)
(* The quartic tweens.  A percent is held as its count of units of         *)
(* 1/PercentUnit, a power of two, and a scale factor as a fraction         *)
(* num/den: on such percents every product, sum and halving of the f64     *)
(* arithmetic is exact.                                                    *)
(***************************************************************************)
PercentUnit == 2 ^ PercentBits

Percents == 0..PercentUnit

\* x * x * x * x, for x in units of 1/PercentUnit: in units of 1/Unit4
Fourth(x) == x * x * x * x

\* 1.0 raised to the fourth power, in the same units
Unit4 == Fourth(PercentUnit)

CalledScale(factor) == [method |-> "scale", factor |-> factor]

\* What tween returns: value_delta.scale(factor).
Scaled(value_delta, factor) ==
    [out |-> Some(Scale(value_delta, factor.num, factor.den)),
     called |-> CalledScale(factor)]

\* QuartIn::tween: percent * percent * percent * percent
QuartInScalar(percent) == [num |-> Fourth(percent), den |-> Unit4]

QuartInTween(value_delta, percent) ==
    Scaled(value_delta, QuartInScalar(percent))

\* QuartOut::tween: percent -= 1.0; -(percent^4 - 1.0)
QuartOutScalar(percent) ==
    LET p == percent - PercentUnit IN
    [num |-> -(Fourth(p) - Unit4), den |-> Unit4]

QuartOutTween(value_delta, percent) ==
    Scaled(value_delta, QuartOutScalar(percent))

\* QuartInOut::tween, on the doubled percent: the branch percent < 1.0
QuartInOutLow(percent) == [num |-> Fourth(percent), den |-> Unit4]

\* QuartInOut::tween, on the doubled percent: the else branch
QuartInOutHigh(percent) ==
    LET p == percent - 2 * PercentUnit IN
    [num |-> -(Fourth(p) - 2 * Unit4), den |-> Unit4]

\* A defect: the else branch takes 1.0 off the doubled percent, not 2.0.
QuartInOutScalarShifted(percent) ==
    LET doubled == 2 * percent
        scalar == IF doubled < PercentUnit
                  THEN QuartInOutLow(doubled)
                  ELSE [num |-> -(Fourth(doubled - PercentUnit) - 2 * Unit4),
                        den |-> Unit4]
    IN  [num |-> scalar.num, den |-> 2 * scalar.den]

\* QuartInOut::tween: percent *= 2.0; the branch; scalar / 2.0
QuartInOutScalar(percent) ==
    LET doubled == 2 * percent
        scalar == IF doubled < PercentUnit
                  THEN QuartInOutLow(doubled)
                  ELSE QuartInOutHigh(doubled)
    IN  [num |-> scalar.num, den |-> 2 * scalar.den]

QuartInOutTween(value_delta, percent) ==
    Scaled(value_delta, QuartInOutScalar(percent))

(***************************************************************************)
(* Tweener.                                                                *)
(***************************************************************************)
TweenerNew(tween) ==
    [tween |-> tween, last_time |-> ZERO, fused |-> FALSE]

\* A defect: the completing step keeps the raw sum as last_time.
TweenerUpdateNoClamp(self, delta) ==
    IF ~self.fused
    THEN LET t == TimeAdd(self.last_time, delta) IN
         IF IsComplete(t, Duration(self.tween))
         THEN [self |-> [self EXCEPT !.last_time = t, !.fused = TRUE],
               out |-> Some(FinalValue(self.tween)),
               called |-> CalledFinal]
         ELSE [self |-> [self EXCEPT !.last_time = t],
               out |-> Some(Run(self.tween, t)),
               called |-> CalledRun(t)]
    ELSE [self |-> self, out |-> None, called |-> CalledNothing]

\* A defect: the completing step sets the fuse and reports exhaustion at
\* once, without the final value.
TweenerUpdateDropsFinal(self, delta) ==
    IF ~self.fused
    THEN LET t == TimeAdd(self.last_time, delta) IN
         IF IsComplete(t, Duration(self.tween))
         THEN [self |-> [self EXCEPT !.last_time = Duration(self.tween),
                                     !.fused = TRUE],
               out |-> None,
               called |-> CalledNothing]
         ELSE [self |-> [self EXCEPT !.last_time = t],
               out |-> Some(Run(self.tween, t)),
               called |-> CalledRun(t)]
    ELSE [self |-> self, out |-> None, called |-> CalledNothing]

\* A defect: the delta replaces the stored time instead of adding to it.
TweenerUpdateLastDeltaOnly(self, delta) ==
    IF ~self.fused
    THEN LET t == delta IN
         IF IsComplete(t, Duration(self.tween))
         THEN [self |-> [self EXCEPT !.last_time = Duration(self.tween),
                                     !.fused = TRUE],
               out |-> Some(FinalValue(self.tween)),
               called |-> CalledFinal]
         ELSE [self |-> [self EXCEPT !.last_time = t],
               out |-> Some(Run(self.tween, t)),
               called |-> CalledRun(t)]
    ELSE [self |-> self, out |-> None, called |-> CalledNothing]

\* A defect: the fuse is not consulted, so a completed driver steps again.
TweenerUpdateIgnoresFuse(self, delta) ==
    LET t == TimeAdd(self.last_time, delta) IN
    IF IsComplete(t, Duration(self.tween))
    THEN [self |-> [self EXCEPT !.last_time = Duration(self.tween),
                                !.fused = TRUE],
          out |-> Some(FinalValue(self.tween)),
          called |-> CalledFinal]
    ELSE [self |-> [self EXCEPT !.last_time = t],
          out |-> Some(Run(self.tween, t)),
          called |-> CalledRun(t)]

\* Tweener::update(&mut self, delta): the driver after the call, the value
\* returned, and the call made on the tween.
TweenerUpdate(self, delta) ==
    IF ~self.fused
    THEN LET t == TimeAdd(self.last_time, delta) IN
         IF IsComplete(t, Duration(self.tween))
         THEN [self |-> [self EXCEPT !.last_time = Duration(self.tween),
                                     !.fused = TRUE],
               out |-> Some(FinalValue(self.tween)),
               called |-> CalledFinal]
         ELSE [self |-> [self EXCEPT !.last_time = t],
               out |-> Some(Run(self.tween, t)),
               called |-> CalledRun(t)]
    ELSE [self |-> self, out |-> None, called |-> CalledNothing]

(***************************************************************************)
(* FixedTweener.                                                           *)
(***************************************************************************)
FixedTweenerNew(tween, delta) ==
    [tween |-> tween, last_time |-> ZERO, delta |-> delta, fused |-> FALSE]

\* A defect: the completion test is strict, so a step landing exactly on the
\* duration still runs the tween.
FixedTweenerNextStrict(self) ==
    IF ~self.fused
    THEN LET t == TimeAdd(self.last_time, self.delta) IN
         IF t > Duration(self.tween)
         THEN [self |-> [self EXCEPT !.last_time = t, !.fused = TRUE],
               out |-> Some(FinalValue(self.tween)),
               called |-> CalledFinal]
         ELSE [self |-> [self EXCEPT !.last_time = t],
               out |-> Some(Run(self.tween, t)),
               called |-> CalledRun(t)]
    ELSE [self |-> self, out |-> None, called |-> CalledNothing]

\* A defect: the delta is added before the fuse is consulted, so a completed
\* driver keeps advancing its time.
FixedTweenerNextAddsFirst(self) ==
    LET t == TimeAdd(self.last_time, self.delta) IN
    IF ~self.fused
    THEN IF IsComplete(t, Duration(self.tween))
         THEN [self |-> [self EXCEPT !.last_time = t, !.fused = TRUE],
               out |-> Some(FinalValue(self.tween)),
               called |-> CalledFinal]
         ELSE [self |-> [self EXCEPT !.last_time = t],
               out |-> Some(Run(self.tween, t)),
               called |-> CalledRun(t)]
    ELSE [self |-> [self EXCEPT !.last_time = t],
          out |-> None,
          called |-> CalledNothing]

\* <FixedTweener as Iterator>::next(&mut self).
FixedTweenerNext(self) ==
    IF ~self.fused
    THEN LET t == TimeAdd(self.last_time, self.delta) IN
         IF IsComplete(t, Duration(self.tween))
         THEN [self |-> [self EXCEPT !.last_time = t, !.fused = TRUE],
               out |-> Some(FinalValue(self.tween)),
               called |-> CalledFinal]
         ELSE [self |-> [self EXCEPT !.last_time = t],
               out |-> Some(Run(self.tween, t)),
               called |-> CalledRun(t)]
    ELSE [self |-> self, out |-> None, called |-> CalledNothing]

\* FixedTweener::tween(&self).
TweenOf(self) == self.tween

\* FixedTweener::current_time(&self).
CurrentTime(self) == self.last_time

(***************************************************************************)
(* Looper and FixedLooper: a driver that is put back to time zero, with    *)
(* its fuse unset, by the step that completes it.  A looper never reports  *)
(* exhaustion, so a driver that is complete when the looper is made is put *)
(* back too; one that is part of the way through its tween is kept as it   *)
(* is.                                                                     *)
(***************************************************************************)
Reset(driver) == [driver EXCEPT !.last_time = ZERO, !.fused = FALSE]

\* A driver given to a looper or an oscillator is reset if it is complete.
Fresh(driver) == IF driver.fused THEN Reset(driver) ELSE driver

\* Tweener::looper(self), which is Looper::new(self)
LooperNew(driver) == [inner |-> Fresh(driver)]

\* Looper::update(&mut self, delta)
LooperUpdate(self, delta) ==
    LET step == TweenerUpdate(self.inner, delta) IN
    [self |-> [inner |-> IF step.self.fused THEN Reset(step.self)
                         ELSE step.self],
     out |-> step.out,
     called |-> step.called]

\* FixedTweener::looper(self), which is FixedLooper::new(self)
FixedLooperNew(driver) == [inner |-> Fresh(driver)]

\* <FixedLooper as Iterator>::next(&mut self)
FixedLooperNext(self) ==
    LET step == FixedTweenerNext(self.inner) IN
    [self |-> [inner |-> IF step.self.fused THEN Reset(step.self)
                         ELSE step.self],
     out |-> step.out,
     called |-> step.called]

(***************************************************************************)
(* Oscillator and FixedOscillator: a rising and a falling driver, one of   *)
(* them active.  The step that completes the active driver returns its     *)
(* final value, resets it and makes the other driver the active one.       *)
(***************************************************************************)
Rising == "Rising"
Falling == "Falling"

Flip(direction) == IF direction = Rising THEN Falling ELSE Rising

\* The value-reversed counterpart of a tween: start and end swapped, the
\* duration kept.
Reversed(tween) == Linear(FinalValue(tween), tween.initial_value,
                          Duration(tween))

\* Oscillator::new(rising)
OscillatorNew(rising) ==
    [rising |-> Fresh(rising),
     falling |-> TweenerNew(Reversed(rising.tween)),
     direction |-> Rising]

\* FixedTweener::oscillator(self)
FixedOscillatorNew(rising) ==
    [rising |-> Fresh(rising),
     falling |-> FixedTweenerNew(Reversed(rising.tween), rising.delta),
     direction |-> Rising]

\* FixedTweener::oscillator_with(self, other)
FixedOscillatorWithFalling(rising, falling) ==
    [rising |-> Fresh(rising),
     falling |-> Fresh(falling),
     direction |-> Rising]

\* The driver an oscillator advances at its next step.
Active(self) == IF self.direction = Rising THEN self.rising ELSE self.falling

\* The driver an oscillator leaves alone at its next step.
Inactive(self) == IF self.direction = Rising THEN self.falling ELSE self.rising

\* The oscillator after a step that took its active driver to step.self.
Oscillated(self, step) ==
    LET done == step.self.fused
        driver == IF done THEN Reset(step.self) ELSE step.self
    IN  [self |-> [rising |-> IF self.direction = Rising THEN driver
                              ELSE self.rising,
                   falling |-> IF self.direction = Rising THEN self.falling
                               ELSE driver,
                   direction |-> IF done THEN Flip(self.direction)
                                 ELSE self.direction],
         out |-> step.out,
         called |-> step.called]

\* Oscillator::update(&mut self, delta)
OscillatorUpdate(self, delta) ==
    Oscillated(self, TweenerUpdate(Active(self), delta))

\* <FixedOscillator as Iterator>::next(&mut self)
FixedOscillatorNext(self) ==
    Oscillated(self, FixedTweenerNext(Active(self)))

\* Oscillator::direction(&self), FixedOscillator::direction(&self)
Direction(self) == self.direction

(***************************************************************************)
(* Chain: an ordered list of tweens run end to end on one timeline.  The   *)
(* chain keeps the index of the current member and the time elapsed within *)
(* it.                                                                     *)
(***************************************************************************)
\* Chain::new(tweens)
ChainNew(tweens) ==
    [tweens |-> tweens, index |-> 1, elapsed |-> ZERO, fused |-> FALSE]

\* Where the time carried past a completed member comes to rest: each
\* further member the carried time completes is passed, its duration taken
\* off, until a member is left running or the list is exhausted.
RECURSIVE Carry(_, _, _)
Carry(tweens, index, time) ==
    IF index <= Len(tweens) /\ IsComplete(time, Duration(tweens[index]))
    THEN Carry(tweens, index + 1, time - Duration(tweens[index]))
    ELSE [index |-> index, elapsed |-> time]

\* A defect: the next member starts from time zero, the overshoot lost.
ChainUpdateDropsOvershoot(self, delta) ==
    IF ~self.fused
    THEN LET t == TimeAdd(self.elapsed, delta)
             member == self.tweens[self.index]
         IN  IF IsComplete(t, Duration(member))
             THEN [self |-> [self EXCEPT !.index = self.index + 1,
                                         !.elapsed = ZERO,
                                         !.fused =
                                             self.index + 1 > Len(self.tweens)],
                   out |-> Some(FinalValue(member)),
                   called |-> CalledFinal]
             ELSE [self |-> [self EXCEPT !.elapsed = t],
                   out |-> Some(Run(member, t)),
                   called |-> CalledRun(t)]
    ELSE [self |-> self, out |-> None, called |-> CalledNothing]

\* Chain::update(&mut self, delta)
ChainUpdate(self, delta) ==
    IF ~self.fused
    THEN LET t == TimeAdd(self.elapsed, delta)
             member == self.tweens[self.index]
         IN  IF IsComplete(t, Duration(member))
             THEN LET rest == Carry(self.tweens, self.index + 1,
                                    t - Duration(member))
                  IN  [self |-> [self EXCEPT !.index = rest.index,
                                             !.elapsed = rest.elapsed,
                                             !.fused =
                                                 rest.index > Len(self.tweens)],
                       out |-> Some(FinalValue(member)),
                       called |-> CalledFinal]
             ELSE [self |-> [self EXCEPT !.elapsed = t],
                   out |-> Some(Run(member, t)),
                   called |-> CalledRun(t)]
    ELSE [self |-> self, out |-> None, called |-> CalledNothing]

(***************************************************************************)
(* State.                                                                  *)
(***************************************************************************)
VARIABLES
    tweener,    \* the Tweener, or Nil
    fixed,      \* the FixedTweener, or Nil
    before,     \* the driver as it was when the last step was called, or Nil
    arg,        \* the delta of the last step
    ret,        \* what the last step returned
    called,     \* the call the last step made on the tween
    elapsed,    \* the sum of the deltas of all steps so far (up to a cap);
                \* for a looper or an oscillator, the time its driver had
                \* when it was made
    reached,    \* whether a step before the last had elapsed >= duration;
                \* for a looper, whether one completed the inner driver
    odd,        \* whether the number of steps made so far is odd
    paired,     \* the results of the last step of a FixedTweener and a
                \* Tweener that are stepped together
    looper,     \* the Looper, or Nil
    fixedLooper,\* the FixedLooper, or Nil
    outs,       \* the results of the steps of a looper or an oscillator
                \* driven at a constant delta, oldest first
    oscillator, \* the Oscillator, or Nil
    fixedOscillator, \* the FixedOscillator, or Nil
    chain,      \* the Chain, or Nil
    ease        \* an easing function applied to an input, or Nil

vars == <<tweener, fixed, before, arg, ret, called, elapsed, reached, odd,
          paired, looper, fixedLooper, outs, oscillator, fixedOscillator,
          chain, ease>>

\* What the drivers and the loopers leave alone.
others == <<oscillator, fixedOscillator, chain, ease>>

Tweens ==
    {Linear(i, f, d) : i \in Values, f \in Values, d \in Durations}

NoStepYet ==
    /\ before = Nil
    /\ arg = 0
    /\ ret = None
    /\ called = CalledNothing
    /\ elapsed = 0
    /\ reached = FALSE
    /\ odd = FALSE
    /\ paired = [fixed |-> None, tweener |-> None]
    /\ outs = <<>>

NoOthers ==
    /\ oscillator = Nil
    /\ fixedOscillator = Nil
    /\ chain = Nil
    /\ ease = Nil

NoLoopers ==
    /\ looper = Nil
    /\ fixedLooper = Nil

\* The program constructs one driver over some tween.
Init ==
    /\ NoStepYet
    /\ NoOthers
    /\ NoLoopers
    /\ \E tween \in Tweens :
          \/ /\ tweener = TweenerNew(tween)
             /\ fixed = Nil
          \/ /\ tweener = Nil
             /\ \E delta \in Deltas : fixed = FixedTweenerNew(tween, delta)

Record(self, delta, result) ==
    /\ before' = self
    /\ arg' = delta
    /\ ret' = result.out
    /\ called' = result.called
    /\ elapsed' = Min(elapsed + delta, ElapsedCap)
    /\ reached' = (before # Nil /\ IsComplete(elapsed, Duration(self.tween)))
    /\ odd' = ~odd

\* tweener.update(delta)
Update ==
    /\ tweener # Nil
    /\ \E delta \in Deltas :
          LET result == TweenerUpdate(tweener, delta) IN
          /\ tweener' = result.self
          /\ Record(tweener, delta, result)
    /\ UNCHANGED <<fixed, paired, looper, fixedLooper, outs, others>>

\* fixed.next()
IterNext ==
    /\ fixed # Nil
    /\ LET result == FixedTweenerNext(fixed) IN
       /\ fixed' = result.self
       /\ Record(fixed, fixed.delta, result)
    /\ UNCHANGED <<tweener, paired, looper, fixedLooper, outs, others>>

Next == Update \/ IterNext

Spec == Init /\ [][Next]_vars

(***************************************************************************)
(* A FixedTweener alone, pulled for as long as the caller likes: the next   *)
(* call of next is always eventually made.                                 *)
(***************************************************************************)
InitFixed ==
    /\ NoStepYet
    /\ NoOthers
    /\ NoLoopers
    /\ tweener = Nil
    /\ \E tween \in Tweens, delta \in Deltas :
          fixed = FixedTweenerNew(tween, delta)

SpecFixed == InitFixed /\ [][IterNext]_vars /\ WF_vars(IterNext)

(***************************************************************************)
(* A FixedTweener with delta d and a Tweener over the same tween, stepped  *)
(* together: next() on the one, update(d) on the other.                    *)
(***************************************************************************)
InitTogether ==
    /\ NoStepYet
    /\ NoOthers
    /\ NoLoopers
    /\ \E tween \in Tweens, delta \in Deltas :
          /\ fixed = FixedTweenerNew(tween, delta)
          /\ tweener = TweenerNew(tween)

StepTogether ==
    LET f == FixedTweenerNext(fixed)
        t == TweenerUpdate(tweener, fixed.delta)
    IN  /\ fixed' = f.self
        /\ tweener' = t.self
        /\ paired' = [fixed |-> f.out, tweener |-> t.out]
        /\ Record(fixed, fixed.delta, f)
        /\ UNCHANGED <<looper, fixedLooper, outs, others>>

SpecTogether == InitTogether /\ [][StepTogether]_vars

(***************************************************************************)
(* A FixedTweener over a linear tween from 0 to an end value of up to      *)
(* WideMax, with a duration of up to WideMax: long enough for fractions    *)
(* whose f64 product with the end value falls short of the exact one.      *)
(***************************************************************************)
WideCap == WideMax + MaxDelta

InitWide ==
    /\ NoStepYet
    /\ NoOthers
    /\ NoLoopers
    /\ tweener = Nil
    /\ \E final \in 0..WideMax, duration \in 0..WideMax, delta \in Deltas :
          fixed = FixedTweenerNew(Linear(0, final, duration), delta)

\* fixed.next(), elapsed counted up to WideCap
WideNext ==
    /\ LET result == FixedTweenerNext(fixed) IN
       /\ fixed' = result.self
       /\ before' = fixed
       /\ arg' = fixed.delta
       /\ ret' = result.out
       /\ called' = result.called
       /\ elapsed' = Min(elapsed + fixed.delta, WideCap)
       /\ reached' = (before # Nil
                      /\ IsComplete(elapsed, Duration(fixed.tween)))
       /\ odd' = ~odd
    /\ UNCHANGED <<tweener, paired, looper, fixedLooper, outs, others>>

SpecWide == InitWide /\ [][WideNext]_vars

(***************************************************************************)
(* A Tweener whose updates take deltas from both ends of what the Time     *)
(* type can hold.  Where last_time + delta is out of the type's range, a   *)
(* build that checks overflow panics in add, before anything is stored,    *)
(* and one that does not goes on with the wrapped sum.                     *)
(***************************************************************************)
Panicked == [some |-> FALSE, panicked |-> TRUE]

\* The small deltas, and the largest deltas of the type.
AllDeltas == Deltas \cup {TimeMax - k : k \in Deltas}

Overflows(self, delta) == ~self.fused /\ self.last_time > TimeMax - delta

\* The times from which the model follows the Tweener further: a time that
\* has wrapped to the low end of the type is followed for ElapsedCap ticks.
Followed(time) == time >= -ElapsedCap \/ time < TimeMin + ElapsedCap

\* What an update leaves behind: the Tweener as it was, the delta, the
\* result and the tween call.
RecordNarrow(self, delta, result) ==
    /\ before' = self
    /\ arg' = delta
    /\ ret' = result.out
    /\ called' = result.called
    /\ odd' = ~odd
    /\ UNCHANGED <<elapsed, reached>>

InitNarrow ==
    /\ NoStepYet
    /\ NoOthers
    /\ NoLoopers
    /\ fixed = Nil
    /\ \E tween \in Tweens : tweener = TweenerNew(tween)

\* tweener.update(delta), any delta of the type
UpdateNarrow ==
    /\ Followed(tweener.last_time)
    /\ \E delta \in AllDeltas :
          \/ /\ Overflows(tweener, delta)
             /\ tweener' = tweener
             /\ RecordNarrow(tweener, delta,
                             [out |-> Panicked, called |-> CalledNothing])
          \/ LET result == TweenerUpdate(tweener, delta) IN
             /\ tweener' = result.self
             /\ RecordNarrow(tweener, delta, result)
    /\ UNCHANGED <<fixed, paired, looper, fixedLooper, outs, others>>

SpecNarrow == InitNarrow /\ [][UpdateNarrow]_vars

(***************************************************************************)
(* A driver, new or already stepped, is moved into a looper or an          *)
(* oscillator, whose steps are counted from there.                         *)
(***************************************************************************)
\* No step of the looper or oscillator has been made yet; elapsed keeps the
\* time its (rising) driver starts from.
Forgotten(rising) ==
    /\ before' = Nil
    /\ arg' = 0
    /\ ret' = None
    /\ called' = CalledNothing
    /\ reached' = FALSE
    /\ odd' = FALSE
    /\ elapsed' = rising.last_time

(***************************************************************************)
(* A looper made from a driver, new or already stepped or complete:        *)
(* tweener.looper() or fixed.looper().                                     *)
(***************************************************************************)
\* tweener.looper()
MakeLooper ==
    /\ tweener # Nil
    /\ looper' = LooperNew(tweener)
    /\ tweener' = Nil
    /\ Forgotten(Fresh(tweener))
    /\ UNCHANGED <<fixed, paired, fixedLooper, outs, others>>

\* fixed.looper()
MakeFixedLooper ==
    /\ fixed # Nil
    /\ fixedLooper' = FixedLooperNew(fixed)
    /\ fixed' = Nil
    /\ Forgotten(Fresh(fixed))
    /\ UNCHANGED <<tweener, paired, looper, outs, others>>

\* What a step of a looper leaves behind: the inner driver as it was, the
\* delta, the result and the tween call, and whether a step before this one
\* completed the inner driver.
RecordLoop(self, delta, result) ==
    /\ before' = self
    /\ arg' = delta
    /\ ret' = result.out
    /\ called' = result.called
    /\ reached' = (reached \/ called = CalledFinal)
    /\ odd' = ~odd
    /\ UNCHANGED elapsed

LooperStep(delta) ==
    /\ looper # Nil
    /\ LET result == LooperUpdate(looper, delta) IN
       /\ looper' = result.self
       /\ RecordLoop(looper.inner, delta, result)
    /\ UNCHANGED <<tweener, fixed, paired, fixedLooper, others>>

FixedLooperStep ==
    /\ fixedLooper # Nil
    /\ LET result == FixedLooperNext(fixedLooper) IN
       /\ fixedLooper' = result.self
       /\ RecordLoop(fixedLooper.inner, fixedLooper.inner.delta, result)
    /\ UNCHANGED <<tweener, fixed, paired, looper, others>>

\* looper.update(delta), any delta
LoopUpdate ==
    /\ \E delta \in Deltas : LooperStep(delta)
    /\ UNCHANGED outs

\* fixedLooper.next()
LoopNext ==
    /\ FixedLooperStep
    /\ UNCHANGED outs

NextLoop ==
    \/ Update
    \/ IterNext
    \/ MakeLooper
    \/ MakeFixedLooper
    \/ LoopUpdate
    \/ LoopNext

SpecLoop == Init /\ [][NextLoop]_vars

(***************************************************************************)
(* A looper driven at a constant delta for up to MaxSteps steps, the       *)
(* result and the tween call of every step kept in outs.                   *)
(***************************************************************************)
Kept == [out |-> ret', called |-> called']

\* looper.update(delta), the delta being that of the step before
CycleUpdate ==
    /\ Len(outs) < MaxSteps
    /\ \E delta \in Deltas :
          /\ before # Nil => delta = arg
          /\ LooperStep(delta)
    /\ outs' = Append(outs, Kept)

\* fixedLooper.next()
CycleNext ==
    /\ Len(outs) < MaxSteps
    /\ FixedLooperStep
    /\ outs' = Append(outs, Kept)

NextCycle ==
    \/ Update
    \/ IterNext
    \/ MakeLooper
    \/ MakeFixedLooper
    \/ CycleUpdate
    \/ CycleNext

SpecCycle == Init /\ [][NextCycle]_vars

(***************************************************************************)
(* An oscillator made from a driver, new or already stepped:               *)
(* Oscillator::new(tweener), fixed.oscillator() or                         *)
(* fixed.oscillator_with(other).  The driver is moved into the oscillator. *)
(***************************************************************************)
\* Oscillator::new(tweener)
MakeOscillator ==
    /\ tweener # Nil
    /\ oscillator' = OscillatorNew(tweener)
    /\ tweener' = Nil
    /\ Forgotten(Fresh(tweener))
    /\ UNCHANGED <<fixed, paired, looper, fixedLooper, outs, fixedOscillator,
                   chain, ease>>

\* fixed.oscillator()
MakeFixedOscillator ==
    /\ fixed # Nil
    /\ fixedOscillator' = FixedOscillatorNew(fixed)
    /\ fixed' = Nil
    /\ Forgotten(Fresh(fixed))
    /\ UNCHANGED <<tweener, paired, looper, fixedLooper, outs, oscillator,
                   chain, ease>>

\* The drivers given as the falling side: over a tween from MaxValue to 0,
\* with any duration and delta, new or after one call of next.
FallingDrivers ==
    LET fresh == {FixedTweenerNew(Linear(MaxValue, 0, d), delta) :
                      d \in Durations, delta \in Deltas}
    IN  fresh \cup {FixedTweenerNext(driver).self : driver \in fresh}

\* fixed.oscillator_with(other)
MakeFixedOscillatorWith ==
    /\ fixed # Nil
    /\ \E other \in FallingDrivers :
          fixedOscillator' = FixedOscillatorWithFalling(fixed, other)
    /\ fixed' = Nil
    /\ Forgotten(Fresh(fixed))
    /\ UNCHANGED <<tweener, paired, looper, fixedLooper, outs, oscillator,
                   chain, ease>>

\* What a step of an oscillator leaves behind: the whole oscillator as it
\* was, the delta, the result and the tween call.
RecordOsc(self, delta, result) ==
    /\ before' = self
    /\ arg' = delta
    /\ ret' = result.out
    /\ called' = result.called
    /\ odd' = ~odd
    /\ UNCHANGED <<elapsed, reached>>

OscillatorStep(delta) ==
    /\ oscillator # Nil
    /\ LET result == OscillatorUpdate(oscillator, delta) IN
       /\ oscillator' = result.self
       /\ RecordOsc(oscillator, delta, result)
    /\ UNCHANGED <<tweener, fixed, paired, looper, fixedLooper,
                   fixedOscillator, chain, ease>>

FixedOscillatorStep ==
    /\ fixedOscillator # Nil
    /\ LET result == FixedOscillatorNext(fixedOscillator) IN
       /\ fixedOscillator' = result.self
       /\ RecordOsc(fixedOscillator, Active(fixedOscillator).delta, result)
    /\ UNCHANGED <<tweener, fixed, paired, looper, fixedLooper,
                   oscillator, chain, ease>>

\* oscillator.update(delta), any delta
OscUpdate ==
    /\ \E delta \in Deltas : OscillatorStep(delta)
    /\ UNCHANGED outs

\* fixedOscillator.next()
OscNext ==
    /\ FixedOscillatorStep
    /\ UNCHANGED outs

NextOsc ==
    \/ Update
    \/ IterNext
    \/ MakeOscillator
    \/ MakeFixedOscillator
    \/ MakeFixedOscillatorWith
    \/ OscUpdate
    \/ OscNext

SpecOsc == Init /\ [][NextOsc]_vars

(***************************************************************************)
(* An oscillator with an inverse falling side, driven at a constant delta  *)
(* for up to MaxSteps steps, the result and the tween call of every step   *)
(* kept in outs.                                                           *)
(***************************************************************************)
\* oscillator.update(delta), the delta being that of the step before
SwingUpdate ==
    /\ Len(outs) < MaxSteps
    /\ \E delta \in Deltas :
          /\ before # Nil => delta = arg
          /\ OscillatorStep(delta)
    /\ outs' = Append(outs, Kept)

\* fixedOscillator.next()
SwingNext ==
    /\ Len(outs) < MaxSteps
    /\ FixedOscillatorStep
    /\ outs' = Append(outs, Kept)

NextSwing ==
    \/ Update
    \/ IterNext
    \/ MakeOscillator
    \/ MakeFixedOscillator
    \/ SwingUpdate
    \/ SwingNext

SpecSwing == Init /\ [][NextSwing]_vars

(***************************************************************************)
(* A Chain over one to MaxMembers tweens, each running between 0 and       *)
(* MaxValue in one direction or the other.                                 *)
(***************************************************************************)
Members ==
    {Linear(0, MaxValue, d) : d \in Durations}
        \cup {Linear(MaxValue, 0, d) : d \in Durations}

MemberLists == UNION {[1..n -> Members] : n \in 1..MaxMembers}

InitChain ==
    /\ NoStepYet
    /\ NoLoopers
    /\ tweener = Nil
    /\ fixed = Nil
    /\ oscillator = Nil
    /\ fixedOscillator = Nil
    /\ ease = Nil
    /\ \E tweens \in MemberLists : chain = ChainNew(tweens)

\* chain.update(delta)
ChainStep ==
    /\ \E delta \in Deltas :
          LET result == ChainUpdate(chain, delta) IN
          /\ chain' = result.self
          /\ before' = chain
          /\ arg' = delta
          /\ ret' = result.out
          /\ called' = result.called
          /\ odd' = ~odd
    /\ UNCHANGED <<tweener, fixed, elapsed, reached, paired, looper,
                   fixedLooper, outs, oscillator, fixedOscillator, ease>>

SpecChain == InitChain /\ [][ChainStep]_vars

(***************************************************************************)
(* One of the quartic tweens, its tween function called with any value     *)
(* delta and any percent from 0 to 1.                                      *)
(***************************************************************************)
QuartIn == [kind |-> "QuartIn"]
QuartOut == [kind |-> "QuartOut"]
QuartInOut == [kind |-> "QuartInOut"]

ValueDeltas == (-MaxValue)..MaxValue

InitQuart ==
    /\ NoStepYet
    /\ NoLoopers
    /\ tweener = Nil
    /\ fixed = Nil
    /\ oscillator = Nil
    /\ fixedOscillator = Nil
    /\ chain = Nil
    /\ ease \in {QuartIn, QuartOut, QuartInOut}

\* What a call of tween leaves behind: the tween as it was, the arguments,
\* the result and the factor given to scale.
RecordTween(value_delta, percent, result) ==
    /\ before' = ease
    /\ arg' = [value_delta |-> value_delta, percent |-> percent]
    /\ ret' = result.out
    /\ called' = result.called
    /\ UNCHANGED <<tweener, fixed, elapsed, reached, odd, paired, looper,
                   fixedLooper, outs, oscillator, fixedOscillator, chain,
                   ease>>

\* QuartIn.tween(value_delta, percent)
EaseIn ==
    /\ ease = QuartIn
    /\ \E value_delta \in ValueDeltas, percent \in Percents :
          RecordTween(value_delta, percent,
                      QuartInTween(value_delta, percent))

\* QuartOut.tween(value_delta, percent)
EaseOut ==
    /\ ease = QuartOut
    /\ \E value_delta \in ValueDeltas, percent \in Percents :
          RecordTween(value_delta, percent,
                      QuartOutTween(value_delta, percent))

\* QuartInOut.tween(value_delta, percent)
EaseInOut ==
    /\ ease = QuartInOut
    /\ \E value_delta \in ValueDeltas, percent \in Percents :
          RecordTween(value_delta, percent,
                      QuartInOutTween(value_delta, percent))

NextQuart == EaseIn \/ EaseOut \/ EaseInOut

SpecQuart == InitQuart /\ [][NextQuart]_vars

(***************************************************************************)
(* Properties of Tweener and FixedTweener.                                 *)
(***************************************************************************)
\* The driver the program has constructed.
Driver == IF tweener # Nil THEN tweener ELSE fixed

Stepped == before # Nil

\* The last step is the first at which the elapsed time met the duration.
Completing == Stepped /\ ~reached /\ IsComplete(elapsed, Duration(Driver.tween))

\* The last step left the elapsed time short of the duration.
Earlier == Stepped /\ ~IsComplete(elapsed, Duration(Driver.tween))

\* C1: once a step has set the fuse, every later update (any delta) and
\* every later next returns None, and the fuse stays set.
C1_FusedForever ==
    (Stepped /\ before.fused) => (ret = None /\ Driver.fused)

\* C1 witness: a completed Tweener has been updated again, with a positive
\* delta, and returned None.
C1_Witness ==
    /\ tweener # Nil
    /\ Stepped
    /\ before.fused
    /\ arg > 0
    /\ ret = None

\* C2: the first step at which the accumulated time is >= the duration
\* (equality included) returns Some(final_value()) by calling final_value,
\* not run; every earlier step returns Some(run(elapsed)).
C2_FinalValueAtCompletion ==
    /\ Completing =>
          /\ ret = Some(FinalValue(Driver.tween))
          /\ called = CalledFinal
    /\ Earlier =>
          /\ ret = Some(Run(Driver.tween, elapsed))
          /\ called = CalledRun(elapsed)

\* C2 witness: a FixedTweener's step has landed exactly on the duration,
\* after an earlier step that ran the tween, and returned the final value.
C2_Witness ==
    /\ fixed # Nil
    /\ Completing
    /\ before.last_time > 0
    /\ elapsed = Duration(fixed.tween)
    /\ fixed.tween.value_delta > 0
    /\ ret = Some(FinalValue(fixed.tween))

\* Deltas up to well past any duration.
OvershootDeltas == 0..ElapsedCap

\* C3: from a Tweener that is not fused, with elapsed time t, update(d) for
\* every d >= duration - t returns the same Some(final_value()) and leaves
\* the same state (last_time = duration, fused) as update(duration - t), and
\* the update after it returns None.
C3_OvershootInvariance ==
    (tweener # Nil /\ ~tweener.fused) =>
        LET duration == Duration(tweener.tween)
            exact == TweenerUpdate(tweener, duration - tweener.last_time)
        IN  \A d \in OvershootDeltas :
               d >= duration - tweener.last_time =>
                  /\ TweenerUpdate(tweener, d) = exact
                  /\ exact.out = Some(FinalValue(tweener.tween))
                  /\ exact.self.last_time = duration
                  /\ exact.self.fused
                  /\ \A d2 \in Deltas : TweenerUpdate(exact.self, d2).out = None

\* C3 witness: a Tweener part of the way through its tween has been
\* updated by more than the time that remained.
C3_Witness ==
    /\ tweener # Nil
    /\ Completing
    /\ before.last_time > 0
    /\ before.last_time + arg > Duration(tweener.tween)
    /\ tweener.tween.value_delta > 0
    /\ ret = Some(FinalValue(tweener.tween))
    /\ tweener.last_time = Duration(tweener.tween)

\* C4: in every reachable state the stored last_time (for FixedTweener, the
\* value of current_time()) is at most the tween's duration.
C4_LastTimeWithinDuration ==
    /\ tweener # Nil => tweener.last_time <= Duration(tweener.tween)
    /\ fixed # Nil => CurrentTime(fixed) <= Duration(fixed.tween)

\* C5: the results of successive FixedTweener::next calls equal, element by
\* element and including the trailing None results, the results of
\* successive Tweener::update(d) calls over the same tween.
C5_FixedEqualsTweener ==
    paired.fixed = paired.tweener

\* C5 witness: both drivers have completed and been stepped again, each
\* returning None, the FixedTweener having passed the duration that the
\* Tweener was clamped to.
C5_Witness ==
    /\ Stepped
    /\ before.fused
    /\ tweener.fused
    /\ fixed.last_time > tweener.last_time
    /\ fixed.tween.value_delta > 0
    /\ paired = [fixed |-> None, tweener |-> None]
    /\ outs = <<>>

\* C6: for every tween duration and every non-negative fixed delta,
\* repeatedly calling next eventually returns None.
C6_EventuallyNone ==
    <>(Stepped /\ ret = None)

\* C7, as stated (any duration D that the positive delta d divides, the
\* values being the exact quotients): over a linear tween from 0 to N the
\* k-th call of next returns N*k*d/D for k = 1..D/d, and every call after
\* the first D/d returns None.
C7_LinearSequenceAnyDuration ==
    (/\ fixed # Nil
     /\ Stepped
     /\ fixed.delta > 0
     /\ Duration(fixed.tween) % fixed.delta = 0
     /\ fixed.tween.initial_value = 0)
    =>  LET N == FinalValue(fixed.tween)
            D == Duration(fixed.tween)
        IN  IF elapsed <= D
            THEN ret = Some((N * elapsed) \div D)
            ELSE ret = None

\* C7, amended (positive duration D that the positive delta d divides; the
\* values as the f64 product gives them): over a linear tween from 0 to N
\* the iterator yields D/d values and then None.  The k-th value is
\* N*k*d/D rounded down, or one less than N*k*d/D where that is an integer
\* and the f64 product N * (k*d/D) falls just short of it, as the 15th of
\* 0 -> 22 over 22 with d = 1, which is 14; the last value is N.
C7_LinearSequence ==
    (/\ fixed # Nil
     /\ Stepped
     /\ fixed.delta > 0
     /\ Duration(fixed.tween) > 0
     /\ Duration(fixed.tween) % fixed.delta = 0
     /\ fixed.tween.initial_value = 0)
    =>  LET N == FinalValue(fixed.tween)
            D == Duration(fixed.tween)
            exact == (N * elapsed) \div D
        IN  /\ elapsed <= D =>
                  /\ ret \in {Some(exact), Some(exact - 1)}
                  /\ (N * elapsed) % D # 0 => ret = Some(exact)
            /\ elapsed = D => ret = Some(N)
            /\ elapsed > D => ret = None

\* C7 witness: a FixedTweener over linear 0 -> 22 with duration 22 and
\* delta 1 has returned its 15th value, 14: the f64 product 22 * (15/22)
\* is just short of 15.
C7_Witness ==
    /\ fixed # Nil
    /\ fixed.tween = Linear(0, 22, 22)
    /\ fixed.delta = 1
    /\ elapsed = 15
    /\ ret = Some(14)
    /\ called = CalledRun(15)

\* C8: each Tweener::update made while the sum of all deltas so far is below
\* the duration returns Some(run(sum)): the value at the accumulated time,
\* which is also the time the driver stores.
C8_RunAtAccumulatedTime ==
    (tweener # Nil /\ Earlier) =>
        /\ ret = Some(Run(tweener.tween, elapsed))
        /\ called = CalledRun(elapsed)
        /\ tweener.last_time = elapsed

\* C8 witness: a second update with a positive delta has returned the value
\* at the sum of both deltas, which is not the value at the last delta.
C8_Witness ==
    /\ tweener # Nil
    /\ Earlier
    /\ before.last_time > 0
    /\ arg > 0
    /\ arg # before.last_time
    /\ ret = Some(Run(tweener.tween, before.last_time + arg))
    /\ ret # Some(Run(tweener.tween, arg))

(***************************************************************************)
(* Properties of Looper and FixedLooper.                                   *)
(***************************************************************************)
\* A looper has been made.
Looped == looper # Nil \/ fixedLooper # Nil

\* The driver inside the looper the program has constructed.
Inner == IF looper # Nil THEN looper.inner ELSE fixedLooper.inner

\* C9: a Looper and a FixedLooper, made from any driver (new, part of the
\* way through its tween, or complete), never report exhaustion: every step
\* returns Some(value), and the inner driver is left with its fuse unset,
\* at time zero if the step completed it.
C9_LooperNeverExhausted ==
    Looped =>
       /\ ~Inner.fused
       /\ Stepped =>
             /\ ret # None
             /\ called = CalledFinal => Inner.last_time = ZERO

\* C9 witness: a Looper has completed its tween a second time, with a step
\* that overshot the duration, and returned the final value again.
C9_Witness ==
    /\ looper # Nil
    /\ Stepped
    /\ reached
    /\ before.last_time > 0
    /\ before.last_time + arg > Duration(Inner.tween)
    /\ Inner.tween.value_delta > 0
    /\ ret = Some(FinalValue(Inner.tween))
    /\ Inner.last_time = ZERO

\* The delta every step so far has used.
CycleDelta == IF looper # Nil THEN arg ELSE fixedLooper.inner.delta

\* The time the inner driver had when the looper was made.
CycleStart == elapsed

FinalSteps(from, to) == {j \in from..to : outs[j].called = CalledFinal}

FinalValues(from, to) ==
    {j \in from..to : outs[j].out = Some(FinalValue(Inner.tween))}

\* C10, as stated (a looper made from any driver): stepped with a constant
\* delta that divides the duration, it is periodic with period
\* duration/delta: step i + period returns the value that step i returned.
C10_LooperPeriodicAnyStart ==
    (/\ Looped
     /\ Stepped
     /\ CycleDelta > 0
     /\ Duration(Inner.tween) % CycleDelta = 0)
    =>  LET period == Duration(Inner.tween) \div CycleDelta IN
        \A i \in 1..Len(outs) :
           i + period <= Len(outs) => outs[i + period].out = outs[i].out

\* C10, amended (a looper made from a driver whose time is a multiple of
\* the delta, as that of a new driver, of a complete one, which is reset,
\* and of any FixedTweener is): stepped with a constant delta that divides
\* the duration, it is periodic with period duration/delta: step
\* i + period returns what step i returned, and each run of period
\* consecutive steps holds exactly one step that returns the final value.
C10_LooperPeriodic ==
    (/\ Looped
     /\ Stepped
     /\ CycleDelta > 0
     /\ Duration(Inner.tween) % CycleDelta = 0
     /\ CycleStart % CycleDelta = 0)
    =>  LET period == Duration(Inner.tween) \div CycleDelta IN
        /\ \A i \in 1..Len(outs) :
              i + period <= Len(outs) => outs[i + period] = outs[i]
        /\ \A i \in 1..Len(outs) :
              (period >= 1 /\ i + period - 1 <= Len(outs)) =>
                 /\ Cardinality(FinalSteps(i, i + period - 1)) = 1
                 /\ Inner.tween.value_delta # 0 =>
                       Cardinality(FinalValues(i, i + period - 1)) = 1

\* C10 witness: a FixedLooper over linear 0 -> 2 with duration 2 and delta 1
\* has returned 1, 2, 1, 2.
C10_Witness ==
    /\ fixedLooper # Nil
    /\ Inner.tween = Linear(0, 2, 2)
    /\ Len(outs) = 4
    /\ [i \in 1..4 |-> outs[i].out] = <<Some(1), Some(2), Some(1), Some(2)>>

(***************************************************************************)
(* Further properties of Tweener and FixedTweener.  Time is the integers   *)
(* here: no sum of a stored time and a delta is out of the type's range.   *)
(***************************************************************************)
\* C14: a step on a fused Tweener or FixedTweener leaves every field as it
\* was (last_time, fused, the tween, and the FixedTweener's delta); and no
\* step, in any state, changes the tween or the FixedTweener's delta, which
\* tween() and current_time() only read.
C14_FrameAfterCompletion ==
    Stepped =>
        /\ before.fused => Driver = before
        /\ TweenOf(Driver) = TweenOf(before)
        /\ fixed # Nil => fixed.delta = before.delta

\* C14 witness: a FixedTweener that completed past its duration has been
\* pulled again, with a positive delta, and is as it was.
C14_Witness ==
    /\ fixed # Nil
    /\ Stepped
    /\ before.fused
    /\ fixed.delta > 0
    /\ fixed.last_time > Duration(fixed.tween)
    /\ fixed = before
    /\ ret = None

\* C15: run is only ever called with a time t such that 0 <= t < duration,
\* by a step on a driver that was not fused and that the step does not
\* complete.
C15_RunWithinDuration ==
    called.method = "run" =>
        /\ 0 <= called.time
        /\ called.time < Duration(Driver.tween)
        /\ ~before.fused
        /\ ~Driver.fused
        /\ ~IsComplete(elapsed, Duration(Driver.tween))

\* C15 witness: a Tweener has run its tween at the last time before the
\* duration, reached over two updates.
C15_Witness ==
    /\ tweener # Nil
    /\ called = CalledRun(Duration(tweener.tween) - 1)
    /\ before.last_time > 0
    /\ arg > 0

\* C16: over a tween of duration 0 the first update (any delta, 0 included)
\* and the first next (any fixed delta, 0 included) return
\* Some(final_value()) without calling run, and every later step returns
\* None.
C16_ZeroDuration ==
    (Stepped /\ Duration(Driver.tween) = 0) =>
        IF ~reached
        THEN /\ ret = Some(FinalValue(Driver.tween))
             /\ called = CalledFinal
        ELSE /\ ret = None
             /\ called = CalledNothing

\* C16 witness: a FixedTweener with delta 0 over a tween of duration 0 has
\* returned the final value on its first next and None on its second.
C16_Witness ==
    /\ fixed # Nil
    /\ Duration(fixed.tween) = 0
    /\ fixed.delta = 0
    /\ fixed.tween.value_delta > 0
    /\ before = [fixed EXCEPT !.fused = TRUE]
    /\ reached
    /\ ret = None

\* C18: a Tweener over a tween of positive duration is fused exactly when
\* its last_time equals the duration, and its last_time is below the
\* duration while it is not fused.
C18_FusedIffAtDuration ==
    (tweener # Nil /\ Duration(tweener.tween) > 0) =>
        /\ tweener.fused <=> tweener.last_time = Duration(tweener.tween)
        /\ ~tweener.fused => tweener.last_time < Duration(tweener.tween)

\* C18 witness: a Tweener part of the way through a tween has been
\* completed by a delta larger than the time that remained.
C18_Witness ==
    /\ tweener # Nil
    /\ Stepped
    /\ before.last_time > 0
    /\ ~before.fused
    /\ before.last_time + arg > Duration(tweener.tween)
    /\ tweener.fused
    /\ tweener.last_time = Duration(tweener.tween)

\* C19: from every reachable Tweener and for all deltas a and b, update(a)
\* then update(b) leaves the state that the single update(a + b) leaves; and
\* when a + b falls short of completion, update(b) in the first returns what
\* update(a + b) returns in the second.
C19_DeltaAdditivity ==
    tweener # Nil =>
        \A a \in Deltas, b \in Deltas :
            LET first == TweenerUpdate(tweener, a)
                second == TweenerUpdate(first.self, b)
                single == TweenerUpdate(tweener, a + b)
            IN  /\ second.self = single.self
                /\ ~single.self.fused => second.out = single.out

\* C19 witness: a Tweener has been taken by two positive updates to a time
\* short of its duration, from where two more positive deltas complete it
\* only together.
C19_Witness ==
    /\ tweener # Nil
    /\ Stepped
    /\ before.last_time > 0
    /\ arg > 0
    /\ ~tweener.fused
    /\ \E a \in Deltas, b \in Deltas :
          /\ a > 0
          /\ b > 0
          /\ ~TweenerUpdate(tweener, a).self.fused
          /\ TweenerUpdate(tweener, a + b).self.fused

(***************************************************************************)
(* Tweener over the 32 bits of Time = i32.                                 *)
(***************************************************************************)
\* C17: with an integer Time of w bits, update(delta) on a Tweener that is
\* not fused returns Some(final_value()) for every representable delta that
\* reaches the duration, however large: last_time + delta never leaves the
\* range of the type, never panics and never wraps to below the duration.
C17_OvershootNeverWraps ==
    (/\ Stepped
     /\ ~before.fused
     /\ before.last_time >= ZERO
     /\ arg >= Duration(before.tween) - before.last_time)
    =>  /\ arg <= TimeMax - before.last_time
        /\ ret = Some(FinalValue(before.tween))
        /\ tweener.fused
        /\ tweener.last_time = Duration(tweener.tween)


(***************************************************************************)
(* Properties of Oscillator and FixedOscillator.                           *)
(***************************************************************************)
\* The oscillator the program has constructed.
Osc == IF oscillator # Nil THEN oscillator ELSE fixedOscillator

\* The program has made its driver into an oscillator.
Made == Osc # Nil

\* The last step took the active driver's time to its duration or past it.
SideCompleted ==
    IsComplete(TimeAdd(Active(before).last_time, arg),
               Duration(Active(before).tween))

\* C11: an oscillator starts Rising; a step changes direction() if and
\* only if it completes the active driver, and that step is the one that
\* returns the completed side's final value; a step that does not complete
\* the active driver leaves direction() as it was.
C11_DirectionFlipsOnCompletion ==
    /\ (Made /\ ~Stepped) => Direction(Osc) = Rising
    /\ (Made /\ Stepped) =>
          /\ SideCompleted <=> Direction(Osc) # Direction(before)
          /\ SideCompleted =>
                /\ Direction(Osc) = Flip(Direction(before))
                /\ ret = Some(FinalValue(Active(before).tween))
                /\ called = CalledFinal
          /\ ~SideCompleted =>
                /\ Direction(Osc) = Direction(before)
                /\ called # CalledFinal

\* C11 witness: a FixedOscillator's falling side has landed exactly on its
\* duration, after an earlier step on that side, and the direction is
\* Rising again with the starting value returned.
C11_Witness ==
    /\ fixedOscillator # Nil
    /\ Stepped
    /\ Direction(before) = Falling
    /\ before.falling.last_time > 0
    /\ before.falling.last_time + arg = Duration(before.falling.tween)
    /\ before.rising.tween.value_delta > 0
    /\ ret = Some(before.rising.tween.initial_value)
    /\ Direction(fixedOscillator) = Rising

\* The delta every step of the oscillator so far has used.
SwingDelta == IF oscillator # Nil THEN arg ELSE fixedOscillator.rising.delta

\* What step i returns when the delta divides the duration: the rising
\* side takes period steps, then the falling side takes period steps.
SwingValue(i) ==
    LET period == Duration(Osc.rising.tween) \div SwingDelta
        phase == (i - 1) % (2 * period)
    IN  IF phase < period
        THEN Run(Osc.rising.tween, (phase + 1) * SwingDelta)
        ELSE Run(Osc.falling.tween, (phase - period + 1) * SwingDelta)

\* The rising driver was at time zero when the oscillator took it: it was
\* new, or it was complete and was reset.
StartedAtZero == elapsed = ZERO

\* C12: the falling side of an oscillator made from one rising driver over
\* linear A -> B runs from B to A over the same duration; no step returns
\* None; a completed side is reset (fuse unset, time zero) and the side
\* that is not active waits at time zero; and, the rising driver starting
\* at time zero, at a constant delta that divides the duration the steps
\* return the rising values up to B, then the falling values down to A,
\* again and again.
C12_OscillatorSwings ==
    Made =>
        /\ Osc.falling.tween.initial_value = FinalValue(Osc.rising.tween)
        /\ FinalValue(Osc.falling.tween) = Osc.rising.tween.initial_value
        /\ Duration(Osc.falling.tween) = Duration(Osc.rising.tween)
        /\ ~Osc.rising.fused
        /\ ~Osc.falling.fused
        /\ Inactive(Osc).last_time = ZERO
        /\ \A i \in 1..Len(outs) : outs[i].out # None
        /\ (Stepped /\ called = CalledFinal) => Active(Osc).last_time = ZERO
        /\ (/\ Stepped
            /\ StartedAtZero
            /\ SwingDelta > 0
            /\ Duration(Osc.rising.tween) > 0
            /\ Duration(Osc.rising.tween) % SwingDelta = 0)
           => \A i \in 1..Len(outs) : outs[i].out = Some(SwingValue(i))

\* C12 witness: an Oscillator over linear 0 -> 2 with duration 2, updated
\* six times with delta 1, has returned 1, 2, 1, 0, 1, 2.
C12_Witness ==
    /\ oscillator # Nil
    /\ elapsed = 0
    /\ oscillator.rising.tween = Linear(0, 2, 2)
    /\ arg = 1
    /\ Len(outs) = 6
    /\ [i \in 1..6 |-> outs[i].out]
          = <<Some(1), Some(2), Some(1), Some(0), Some(1), Some(2)>>


(***************************************************************************)
(* Properties of Chain.                                                    *)
(***************************************************************************)
\* The time a chain has taken up: the durations of the members it has
\* passed and the time elapsed in the current one.
RECURSIVE Passed(_, _)
Passed(tweens, index) ==
    IF index <= 1 THEN 0
    ELSE Passed(tweens, index - 1) + Duration(tweens[index - 1])

Position(self) == Passed(self.tweens, self.index) + self.elapsed

\* The member that was current when the last step was called.
Member == before.tweens[before.index]

\* C13: a Chain runs its members once, in list order: no step changes the
\* list or lowers the index; a step whose time within the current member
\* meets or exceeds that member's duration returns that member's final
\* value, moves the index on and carries the overshoot (while a member is
\* left, the time taken up grows by exactly delta); any other step runs the current member at the
\* new time and keeps the index; the chain is fused exactly when the index
\* is past the last member, and a step on a fused chain returns None and
\* changes nothing.
C13_ChainSingleShot ==
    /\ chain.index \in 1..(Len(chain.tweens) + 1)
    /\ chain.fused <=> chain.index > Len(chain.tweens)
    /\ Stepped =>
          /\ chain.tweens = before.tweens
          /\ chain.index >= before.index
          /\ before.fused => (ret = None /\ chain = before)
          /\ ~before.fused =>
                /\ ~chain.fused => Position(chain) = Position(before) + arg
                /\ IF IsComplete(before.elapsed + arg, Duration(Member))
                   THEN /\ ret = Some(FinalValue(Member))
                        /\ chain.index > before.index
                   ELSE /\ ret = Some(Run(Member, before.elapsed + arg))
                        /\ chain.index = before.index

\* C13 witness: a step has taken the first of two members past its
\* duration: it returned that member's final value and the second member
\* is current, at the overshoot.
C13_Witness ==
    /\ Stepped
    /\ Len(chain.tweens) = 2
    /\ before.index = 1
    /\ before.elapsed > 0
    /\ before.elapsed + arg > Duration(Member)
    /\ ret = Some(MaxValue)
    /\ chain.index = 2
    /\ chain.elapsed = before.elapsed + arg - Duration(Member)
    /\ ~chain.fused


(***************************************************************************)
(* Properties of the quartic tweens.                                       *)
(***************************************************************************)
\* The factor the last call of tween gave to scale.
Factor == called.factor

\* C20: QuartIn, QuartOut and QuartInOut keep no state; the factor each
\* gives to scale is 0 at percent 0 (the result is no change from the
\* start value) and 1 at percent 1 (the result is the whole value delta);
\* and at percent 1/2 the two branches of QuartInOut give the same scalar,
\* the factor being 1/2.
C20_QuartEndpoints ==
    Stepped =>
        /\ ease = before
        /\ arg.percent = 0 =>
              /\ Factor.num = 0
              /\ ret = Some(0)
        /\ arg.percent = PercentUnit =>
              /\ Factor.num = Factor.den
              /\ ret = Some(arg.value_delta)
        /\ (ease = QuartInOut /\ 2 * arg.percent = PercentUnit) =>
              /\ QuartInOutLow(PercentUnit) = QuartInOutHigh(PercentUnit)
              /\ 2 * Factor.num = Factor.den
              /\ ret = Some(Scale(arg.value_delta, 1, 2))

\* C20 witness: QuartInOut has been called at percent 1, where the else
\* branch is taken, with a value delta that is not zero, and returned it
\* whole.
C20_Witness ==
    /\ Stepped
    /\ ease = QuartInOut
    /\ arg.percent = PercentUnit
    /\ arg.value_delta = MaxValue
    /\ ret = Some(MaxValue)

====
